---- MODULE Spec2Model ----
(***************************************************************************)
(* Token lifecycle and session invalidation of the fastify_auth service:   *)
(* AuthService (register, login, refreshToken, logout, changePassword),    *)
(* RefreshTokenService (the refresh-token table), JwtService (signing and  *)
(* verification) and UserService (the user table).                         *)
(*                                                                         *)
(* Every request runs in a call slot of Procs.  One action is one database *)
(* statement together with the synchronous JavaScript that follows it up   *)
(* to the next await, so requests interleave exactly at their awaits.      *)
(* `store' and `users' are the COMMITTED contents of the two tables.  The  *)
(* interactive transaction of refreshToken runs at the database default    *)
(* isolation (PostgreSQL READ COMMITTED, no isolationLevel is passed): its *)
(* reads see the committed rows of the moment, its deletes are row locks   *)
(* kept in `pending' until commit, and a throw in the callback rolls back. *)
(* Time is counted in ticks of one refresh-token lifetime (7 days); a call  *)
(* lasts milliseconds, so the clock ticks between calls, not inside one.   *)
(***************************************************************************)
EXTENDS Integers, FiniteSets, Sequences, TLC

\* ---- bounds of the model ------------------------------------------------
MaxUsers == 1       \* rows ever inserted in the user table
MaxIssue == 3       \* token pairs ever generated
MaxTime == 2        \* last clock tick

\* ---- program constants (in ticks) ---------------------------------------
RefreshTTL == 1     \* JWT_REFRESH_EXPIRES_IN = 7d, setDate(getDate() + 7)
AccessTTL == 1      \* JWT_EXPIRES_IN = 15m: an access token is expired at the next tick

Procs == {1, 2}     \* call slots: requests in flight at the same time
Emails == {"a@x"}
Passwords == {"pw1", "pw2"}

VARIABLES
  users,      \* user table: set of [id, email, password]
  store,      \* refreshToken table: set of committed session records
  proc,       \* per call slot: operation, position and locals
  now,        \* Date.now()
  hrtime,     \* process.hrtime.bigint(), strictly increasing per read
  nextUid,    \* next generated user id
  issued,     \* history: refresh tokens returned to a client
  accessIssued, \* history: access tokens returned to a client
  rotations,  \* history: [old, new] of every successful refreshToken
  soleChain,  \* history: [uid, token] of a register that ended with no other call in flight, while only refreshToken calls with that token were made
  response    \* outcome of the call the step just taken ended (with the token it presented), else NoResponse

vars == <<users, store, proc, now, hrtime, nextUid, issued, accessIssued,
          rotations, soleChain, response>>

\* ---- values -------------------------------------------------------------
NoToken == [kind |-> "none", userId |-> 0, tokenVersion |-> 0, jti |-> 0, exp |-> 0]
NoAccess == [kind |-> "none", userId |-> 0, email |-> "", jti |-> 0, exp |-> 0]
NoTokens == [accessToken |-> NoAccess, refreshToken |-> NoToken]
NoRec == [id |-> 0, token |-> NoToken, userId |-> 0, tokenVersion |-> 0,
          sessionId |-> 0, expiresAt |-> 0]
NoUser == [id |-> 0, email |-> "", password |-> ""]

NoResponse == [result |-> "none", token |-> NoToken]

IdleProc == [op |-> "none", pc |-> "idle", result |-> "none",
             uid |-> 0, email |-> "", newPw |-> "",
             token |-> NoToken, stored |-> NoRec, tokens |-> NoTokens,
             version |-> 0, expiresAt |-> 0,
             snap |-> {}, pending |-> {},
             atStart |-> {}]

\* ---- JwtService ---------------------------------------------------------
\* jwt.sign with expiresIn: exp = iat + ttl; the jti is kind-now-nanoTime.
\* an access token signed without the email claim
generateAccessTokenNoEmail(userId, email, jti, t) ==
  [kind |-> "access", userId |-> userId, email |-> "", jti |-> jti,
   exp |-> t + AccessTTL]

generateAccessToken(userId, email, jti, t) ==
  [kind |-> "access", userId |-> userId, email |-> email, jti |-> jti,
   exp |-> t + AccessTTL]

\* a refresh token whose tokenVersion claim is always the initial version
generateUnversioned(userId, tokenVersion, jti, t) ==
  [kind |-> "refresh", userId |-> userId, tokenVersion |-> 1,
   jti |-> jti, exp |-> t + RefreshTTL]

generateRefreshToken(userId, tokenVersion, jti, t) ==
  [kind |-> "refresh", userId |-> userId, tokenVersion |-> tokenVersion,
   jti |-> jti, exp |-> t + RefreshTTL]

\* token pairs whose jti is built from Date.now() alone
generateTokensByClock(userId, email, tokenVersion, t, nanoTime) ==
  [accessToken |-> generateAccessToken(userId, email, <<"access", t, 0>>, t),
   refreshToken |-> generateRefreshToken(userId, tokenVersion, <<"refresh", t, 0>>, t)]

generateTokens(userId, email, tokenVersion, t, nanoTime) ==
  [accessToken |-> generateAccessToken(userId, email, <<"access", t, nanoTime>>, t),
   refreshToken |-> generateRefreshToken(userId, tokenVersion, <<"refresh", t, nanoTime>>, t)]

\* jwt.verify with the refresh secret: signature, then exp (expired when
\* the clock has reached exp).
verifyRefreshToken(token, t) == token.kind = "refresh" /\ t < token.exp

\* a verification that checks exp and accepts a signature made with any secret
verifyAnySecret(token, t) == t < token.exp

\* jwt.verify with the access secret: signature, then exp; kind stands for
\* the secret a token was signed with (JWT_SECRET, JWT_REFRESH_SECRET, or
\* a secret that is not one of this system's)
verifyAccessToken(token, t) == token.kind = "access" /\ t < token.exp

\* ---- table helpers ------------------------------------------------------
UserById(id) == IF \E u \in users : u.id = id
                THEN CHOOSE u \in users : u.id = id ELSE NoUser
UserByEmail(email) == IF \E u \in users : u.email = email
                      THEN CHOOSE u \in users : u.email = email ELSE NoUser

\* a lookup by the jti claim instead of the token string
findByClaims(token) == IF \E r \in store : r.token.jti = token.jti
                       THEN CHOOSE r \in store : r.token.jti = token.jti ELSE NoRec

\* prisma.refreshToken.findUnique({ where: { token } })
findUnique(token) == IF \E r \in store : r.token = token
                     THEN CHOOSE r \in store : r.token = token ELSE NoRec

UserRecords(uid) == {r \in store : r.userId = uid}
Ids(recs) == {r.id : r \in recs}

Max(S) == CHOOSE x \in S : \A y \in S : y <= x

\* findFirst({ where: { userId }, orderBy: { tokenVersion: 'desc' } })?.tokenVersion || 1
getUserTokenVersion(uid) ==
  IF UserRecords(uid) = {} THEN 1
  ELSE Max({r.tokenVersion : r \in UserRecords(uid)})

\* rows deleted but not yet committed by the transactions of other calls
LockedByOthers(p) == UNION {proc[q].pending : q \in Procs \ {p}}

\* a row whose sessionId is built from Date.now() alone
NewRecordByClock(token, uid, version, expiresAt) ==
  [id |-> token.jti[3], token |-> token, userId |-> uid, tokenVersion |-> version,
   sessionId |-> <<expiresAt - RefreshTTL, 0>>, expiresAt |-> expiresAt]

\* the row prisma.refreshToken.create inserts; the generated id and the
\* sessionId (Date.now()-random, computed with the expiry date) are fresh
NewRecord(token, uid, version, expiresAt) ==
  [id |-> token.jti[3], token |-> token, userId |-> uid, tokenVersion |-> version,
   sessionId |-> <<expiresAt - RefreshTTL, token.jti[3]>>, expiresAt |-> expiresAt]

\* a deleteMany/delete statement waits while a row it targets is locked
Blocked(p, ids) == (ids \cap Ids(store)) \cap LockedByOthers(p) # {}

\* rows matched by deleteMany({ where: { userId } })
deleteManyNone(uid) == {}
deleteManyWhereUser(uid) == Ids(UserRecords(uid))

\* end of a $transaction callback: a throw rolls back, a return commits
RollbackKeepsDeletes(committed, deleted, inserted) ==
  {r \in committed : r.id \notin deleted}
Rollback(committed, deleted, inserted) == committed

CommitKeepsDeleted(committed, deleted, inserted) == committed \cup inserted
CommitDeletesOnly(committed, deleted, inserted) ==
  {r \in committed : r.id \notin deleted}
Commit(committed, deleted, inserted) ==
  {r \in committed : r.id \notin deleted} \cup inserted

Init ==
  /\ users = {}
  /\ store = {}
  /\ proc = [p \in Procs |-> IdleProc]
  /\ now = 0
  /\ hrtime = 0
  /\ nextUid = 1
  /\ issued = {}
  /\ accessIssued = {}
  /\ rotations = {}
  /\ soleChain = {}
  /\ response = NoResponse

Free(p) == proc[p].pc = "idle"

AllFree == \A q \in Procs : Free(q)

\* a new request is given the first free call slot
StartSlot(p) == Free(p) /\ \A q \in Procs : q < p => ~Free(q)

\* the locals of a call at its return or throw
Finished(op, res, tok, tokens) ==
  [IdleProc EXCEPT !.op = op, !.pc = "done", !.result = res, !.token = tok,
                   !.tokens = tokens]

\* a step of call p: it either moves on to its next await or ends, and then
\* its slot is free again and its outcome is the response of this step
Step(p, np) ==
  /\ proc' = [proc EXCEPT ![p] = IF np.pc = "done" THEN IdleProc ELSE np]
  /\ response' = IF np.pc = "done"
                 THEN [result |-> np.result, token |-> np.token] ELSE NoResponse


TokensOf(recs) == {r.token : r \in recs}

\* ---- clock --------------------------------------------------------------
Tick ==
  /\ now < MaxTime
  /\ AllFree
  /\ now' = now + 1
  /\ response' = NoResponse
  /\ UNCHANGED <<users, store, proc, hrtime, nextUid, issued, accessIssued, rotations,
                 soleChain>>

\* ---- AuthService.register / UserService.createUser ----------------------
\* createUser: findUnique by email (ConflictError when it exists) and
\* user.create; then generateTokens(id, email, 1) and the expiry date
register(p, email, password) ==
  /\ StartSlot(p)
  /\ IF UserByEmail(email) # NoUser
     THEN /\ Step(p, Finished("register", "Conflict", NoToken, NoTokens))
          /\ UNCHANGED <<users, hrtime, nextUid>>
     ELSE /\ nextUid <= MaxUsers
          /\ hrtime < MaxIssue
          /\ users' = users \cup {[id |-> nextUid, email |-> email, password |-> password]}
          /\ nextUid' = nextUid + 1
          /\ hrtime' = hrtime + 1
          /\ Step(p, [IdleProc EXCEPT !.op = "register", !.pc = "create", !.uid = nextUid,
                                      !.email = email, !.version = 1,
                                      !.tokens = generateTokens(nextUid, email, 1, now, hrtime),
                                      !.expiresAt = now + RefreshTTL])
  /\ UNCHANGED <<store, now, issued, accessIssued, rotations, soleChain>>

\* ---- AuthService.login --------------------------------------------------
\* findUserByEmail and validatePassword
LoginStart(p, email, password) ==
  /\ StartSlot(p)
  /\ LET user == UserByEmail(email) IN
       /\ Step(p,
            IF user = NoUser \/ user.password # password
            THEN Finished("login", "InvalidCredentials", NoToken, NoTokens)
            ELSE [IdleProc EXCEPT !.op = "login", !.pc = "getVersion",
                                  !.uid = user.id, !.email = user.email])
       /\ soleChain' = IF user = NoUser \/ user.password # password THEN soleChain
                       ELSE {c \in soleChain : c.uid # user.id}
  /\ UNCHANGED <<users, store, now, hrtime, nextUid, issued, accessIssued, rotations>>

\* getUserTokenVersion, generateTokens and the expiry date
LoginGetVersion(p) ==
  /\ proc[p].pc = "getVersion"
  /\ hrtime < MaxIssue
  /\ hrtime' = hrtime + 1
  /\ LET tokenVersion == getUserTokenVersion(proc[p].uid) IN
       Step(p,
         [proc[p] EXCEPT !.pc = "create", !.version = tokenVersion,
                   !.tokens = generateTokens(proc[p].uid, proc[p].email, tokenVersion, now, hrtime),
                   !.expiresAt = now + RefreshTTL])
  /\ UNCHANGED <<users, store, now, nextUid, issued, accessIssued, rotations, soleChain>>

\* ---- RefreshTokenService.createRefreshToken -----------------------------
\* cleanupExpiredTokens(userId): deleteMany({ expiresAt: { lt: new Date() }, userId })
cleanupAllTokens(recs, uid, t) == {r \in recs : r.userId # uid}
\* a cleanup whose where clause lacks the userId
cleanupExpiredOfAll(recs, uid, t) == {r \in recs : ~(r.expiresAt < t)}

cleanupExpiredTokens(recs, uid, t) ==
  {r \in recs : ~(r.userId = uid /\ r.expiresAt < t)}

\* cleanupExpiredTokens, then refreshToken.create (userId references a user
\* row); register/login return the pair
createRefreshToken(p) ==
  /\ proc[p].pc = "create"
  /\ proc[p].op \in {"register", "login"}
  /\ ~Blocked(p, Ids(store \ cleanupExpiredTokens(store, proc[p].uid, now)))
  /\ LET tok == proc[p].tokens.refreshToken
         cleaned == cleanupExpiredTokens(store, proc[p].uid, now)
     IN IF UserById(proc[p].uid) = NoUser
        THEN /\ Step(p, Finished(proc[p].op, "DbError", NoToken, NoTokens))
             /\ store' = cleaned
             /\ UNCHANGED <<issued, accessIssued, soleChain>>
        ELSE /\ store' = cleaned \cup
                    {NewRecord(tok, proc[p].uid, proc[p].version, proc[p].expiresAt)}
             /\ Step(p, Finished(proc[p].op, "ok", NoToken, proc[p].tokens))
             /\ issued' = issued \cup {tok}
             /\ accessIssued' = accessIssued \cup {proc[p].tokens.accessToken}
             /\ soleChain' = IF proc[p].op = "register" /\ \A q \in Procs \ {p} : Free(q)
                             THEN soleChain \cup {[uid |-> proc[p].uid, token |-> tok]}
                             ELSE soleChain
  /\ UNCHANGED <<users, now, hrtime, nextUid, rotations>>

\* ---- AuthService.refreshToken -------------------------------------------
Consumed == {r.old : r \in rotations}

RefreshPcs == {"deleteExpired", "findUser", "deleteMany", "deleteWait", "create"}

\* $transaction begins; findUnique by token, the expiry test and
\* verifyRefreshToken
RefreshStart(p, t) ==
  /\ StartSlot(p)
  /\ LET storedToken == findUnique(t)
         base == [IdleProc EXCEPT !.op = "refresh", !.token = t, !.stored = storedToken,
                                  !.atStart = TokensOf(UserRecords(storedToken.userId))]
     IN Step(p,
          IF storedToken = NoRec
          THEN Finished("refresh", "SessionNotFound", t, NoTokens)
          ELSE IF storedToken.expiresAt < now
          THEN [base EXCEPT !.pc = "deleteExpired"]
          ELSE IF ~verifyRefreshToken(t, now)
          THEN Finished("refresh", "TokenInvalid", t, NoTokens)
          ELSE [base EXCEPT !.pc = "findUser"])
  /\ soleChain' = {c \in soleChain : c.uid # t.userId \/ c.token = t}
  /\ UNCHANGED <<users, store, now, hrtime, nextUid, issued, accessIssued, rotations>>

\* delete({ where: { id } }) of the expired record inside the transaction,
\* then the throw, which ends the transaction
RefreshDeleteExpired(p) ==
  /\ proc[p].pc = "deleteExpired"
  /\ ~Blocked(p, {proc[p].stored.id})
  /\ Step(p,
       Finished("refresh",
                IF proc[p].stored.id \in Ids(store) THEN "RefreshTokenExpired" ELSE "DbError",
                proc[p].token, NoTokens))
  /\ store' = Rollback(store, {proc[p].stored.id} \cap Ids(store), {})
  /\ UNCHANGED <<users, now, hrtime, nextUid, issued, accessIssued, rotations, soleChain>>

\* a refreshToken that does not look the user up: the user of the stored
\* record is taken to exist
RefreshFindUserUnchecked(p) ==
  /\ proc[p].pc = "findUser"
  /\ hrtime < MaxIssue
  /\ hrtime' = hrtime + 1
  /\ Step(p,
       [proc[p] EXCEPT !.pc = "deleteMany", !.uid = proc[p].stored.userId,
                 !.version = proc[p].stored.tokenVersion + 1,
                 !.tokens = generateTokens(proc[p].stored.userId, "a@x",
                                           proc[p].stored.tokenVersion + 1, now, hrtime)])
  /\ UNCHANGED <<users, store, now, nextUid, issued, accessIssued, rotations, soleChain>>

\* findUserById(payload.userId), the version test and generateTokens
RefreshFindUser(p) ==
  /\ proc[p].pc = "findUser"
  /\ LET payload == proc[p].token
         user == UserById(payload.userId)
         newTokenVersion == proc[p].stored.tokenVersion + 1
     IN IF user = NoUser
        THEN /\ Step(p,
                  Finished("refresh", "UserNotFound", proc[p].token, NoTokens))
             /\ hrtime' = hrtime
        ELSE IF payload.tokenVersion # proc[p].stored.tokenVersion
        THEN /\ Step(p,
                  Finished("refresh", "TokenVersionMismatch", proc[p].token, NoTokens))
             /\ hrtime' = hrtime
        ELSE /\ hrtime < MaxIssue
             /\ hrtime' = hrtime + 1
             /\ Step(p,
                  [proc[p] EXCEPT !.pc = "deleteMany", !.uid = user.id, !.version = newTokenVersion,
                            !.tokens = generateTokens(user.id, user.email, newTokenVersion, now, hrtime)])
  /\ UNCHANGED <<users, store, now, nextUid, issued, accessIssued, rotations, soleChain>>

\* deleteMany({ where: { userId } }) inside the transaction, then the new
\* expiry date
RefreshDeleteMany(p) ==
  /\ proc[p].pc = "deleteMany"
  /\ LET ids == deleteManyWhereUser(proc[p].uid) IN
       Step(p,
         IF Blocked(p, ids)
         THEN [proc[p] EXCEPT !.pc = "deleteWait", !.snap = ids]
         ELSE [proc[p] EXCEPT !.pc = "create", !.pending = ids, !.expiresAt = now + RefreshTTL])
  /\ UNCHANGED <<users, store, now, hrtime, nextUid, issued, accessIssued, rotations,
                 soleChain>>

\* a deleteMany that resumes only while the rows it waited for still exist
RefreshDeleteWaitForRows(p) ==
  /\ proc[p].pc = "deleteWait"
  /\ ~Blocked(p, proc[p].snap)
  /\ proc[p].snap \subseteq Ids(store)
  /\ Step(p,
       [proc[p] EXCEPT !.pc = "create", !.snap = {}, !.pending = proc[p].snap \cap Ids(store),
                 !.expiresAt = now + RefreshTTL])
  /\ UNCHANGED <<users, store, now, hrtime, nextUid, issued, accessIssued, rotations,
                 soleChain>>

\* the deleteMany resumes once the rows it waited for are unlocked: it
\* deletes the rows of its snapshot that still exist
RefreshDeleteWait(p) ==
  /\ proc[p].pc = "deleteWait"
  /\ ~Blocked(p, proc[p].snap)
  /\ Step(p,
       [proc[p] EXCEPT !.pc = "create", !.snap = {}, !.pending = proc[p].snap \cap Ids(store),
                 !.expiresAt = now + RefreshTTL])
  /\ UNCHANGED <<users, store, now, hrtime, nextUid, issued, accessIssued, rotations,
                 soleChain>>

\* refreshToken.create inside the transaction, return tokens, commit
RefreshCreate(p) ==
  /\ proc[p].pc = "create"
  /\ proc[p].op = "refresh"
  /\ LET tok == proc[p].tokens.refreshToken
         rec == NewRecord(tok, proc[p].uid, proc[p].version, proc[p].expiresAt)
     IN IF UserById(proc[p].uid) = NoUser
        THEN /\ Step(p,
                  Finished("refresh", "DbError", proc[p].token, NoTokens))
             /\ store' = Rollback(store, proc[p].pending, {rec})
             /\ UNCHANGED <<issued, accessIssued, rotations>>
        ELSE /\ Step(p,
                  Finished("refresh", "ok", proc[p].token, proc[p].tokens))
             /\ store' = Commit(store, proc[p].pending, {rec})
             /\ issued' = issued \cup {tok}
             /\ accessIssued' = accessIssued \cup {proc[p].tokens.accessToken}
             /\ rotations' = rotations \cup {[old |-> proc[p].token, new |-> tok]}
  /\ UNCHANGED <<users, now, hrtime, nextUid, soleChain>>

\* the transaction ends without commit (connection lost, transaction
\* timeout, process crash): the database rolls it back
RefreshCrash(p) ==
  /\ proc[p].op = "refresh"
  /\ proc[p].pc \in RefreshPcs
  /\ Step(p,
       Finished("refresh", "Crash", proc[p].token, NoTokens))
  /\ store' = Rollback(store, proc[p].pending, {})
  /\ UNCHANGED <<users, now, hrtime, nextUid, issued, accessIssued, rotations, soleChain>>

\* ---- AuthService.logout / RefreshTokenService.deleteAllUserRefreshTokens -
\* deleteMany({ where: { userId } }) as its own statement; `base' is the
\* call with its locals, `ids' the rows the statement targets
deleteAllUserRefreshTokens(p, base, ids) ==
  IF Blocked(p, ids)
  THEN /\ Step(p, [base EXCEPT !.pc = "deleteAllWait", !.snap = ids])
       /\ UNCHANGED <<store>>
  ELSE /\ Step(p, Finished(base.op, "ok", NoToken, NoTokens))
       /\ store' = {r \in store : r.id \notin ids}

logout(p, uid) ==
  /\ StartSlot(p)
  /\ uid \in 1..(nextUid - 1)
  /\ deleteAllUserRefreshTokens(p,
       [IdleProc EXCEPT !.op = "logout", !.uid = uid],
       deleteManyWhereUser(uid))
  /\ soleChain' = {c \in soleChain : c.uid # uid}
  /\ UNCHANGED <<users, now, hrtime, nextUid, issued, accessIssued, rotations>>

\* the statement of logout resumes once the rows it waited for are unlocked
deleteAllWait(p) ==
  /\ proc[p].pc = "deleteAllWait"
  /\ ~Blocked(p, proc[p].snap)
  /\ deleteAllUserRefreshTokens(p, proc[p], proc[p].snap)
  /\ UNCHANGED <<users, now, hrtime, nextUid, issued, accessIssued, rotations, soleChain>>

\* ---- AuthService.changePassword / UserService.updatePassword ------------
\* findUserById and validatePassword of the current password
changePassword(p, uid, currentPassword, newPassword) ==
  /\ StartSlot(p)
  /\ uid \in 1..(nextUid - 1)
  /\ LET user == UserById(uid) IN
       Step(p,
         IF user = NoUser
         THEN Finished("changePassword", "UserNotFound", NoToken, NoTokens)
         ELSE IF user.password # currentPassword
         THEN Finished("changePassword", "WrongPassword", NoToken, NoTokens)
         ELSE [IdleProc EXCEPT !.op = "changePassword", !.pc = "update", !.uid = uid,
                               !.newPw = newPassword])
  /\ soleChain' = {c \in soleChain : c.uid # uid}
  /\ UNCHANGED <<users, store, now, hrtime, nextUid, issued, accessIssued, rotations>>

\* an updatePassword that returns without writing the user row
updatePasswordSkipped(p) ==
  /\ proc[p].pc = "update"
  /\ LET user == UserById(proc[p].uid) IN
       IF user = NoUser
       THEN Step(p, Finished("changePassword", "NotFound", NoToken, NoTokens))
       ELSE Step(p, [proc[p] EXCEPT !.pc = "logout"])
  /\ UNCHANGED <<users, store, now, hrtime, nextUid, issued, accessIssued, rotations,
                 soleChain>>

\* updatePassword: findUnique by id (NotFoundError when absent), then
\* user.update({ where: { id }, data: { password } })
updatePassword(p) ==
  /\ proc[p].pc = "update"
  /\ LET user == UserById(proc[p].uid) IN
       IF user = NoUser
       THEN /\ Step(p, Finished("changePassword", "NotFound", NoToken, NoTokens))
            /\ users' = users
       ELSE /\ Step(p, [proc[p] EXCEPT !.pc = "logout"])
            /\ users' = (users \ {user}) \cup {[user EXCEPT !.password = proc[p].newPw]}
  /\ UNCHANGED <<store, now, hrtime, nextUid, issued, accessIssued, rotations, soleChain>>

\* changePassword: this.logout(userId)
changePasswordLogout(p) ==
  /\ proc[p].pc = "logout"
  /\ deleteAllUserRefreshTokens(p, proc[p], deleteManyWhereUser(proc[p].uid))
  /\ UNCHANGED <<users, now, hrtime, nextUid, issued, accessIssued, rotations, soleChain>>

\* ---- UserService.deleteUser ---------------------------------------------
\* user.delete; the cascade removes the user's refresh tokens and waits for
\* the rows a transaction holds
deleteUser(uid) ==
  /\ UserById(uid) # NoUser
  /\ Ids(UserRecords(uid)) \cap UNION {proc[q].pending : q \in Procs} = {}
  /\ users' = users \ {UserById(uid)}
  /\ store' = store \ UserRecords(uid)
  /\ soleChain' = {c \in soleChain : c.uid # uid}
  /\ response' = NoResponse
  /\ UNCHANGED <<proc, now, hrtime, nextUid, issued, accessIssued, rotations>>

\* ---- AuthService.validateAccessToken -------------------------------------
\* verifyAccessToken and findUserById inside try; the catch block replaces
\* every error thrown there, 'User not found' included, by
\* AuthenticationError('Invalid or expired access token')
validateWithSession(token, t) ==
  IF verifyAccessToken(token, t) /\ UserById(token.userId) # NoUser
     /\ UserRecords(token.userId) # {}
  THEN "ok" ELSE "TokenInvalid"
validateAccessTokenResult(token, t) ==
  LET thrown == IF ~verifyAccessToken(token, t) THEN "TokenInvalid"
                ELSE IF UserById(token.userId) = NoUser THEN "UserNotFound"
                ELSE "ok"
  IN IF thrown = "ok" THEN "ok" ELSE "TokenInvalid"

validateAccessToken(p, token) ==
  /\ StartSlot(p)
  /\ Step(p, Finished("validate", validateAccessTokenResult(token, now), token, NoTokens))
  /\ UNCHANGED <<users, store, now, hrtime, nextUid, issued, accessIssued,
                 rotations, soleChain>>

\* token strings a client can present: the ones it was given, and the same
\* claims signed with a secret that is neither of the server's two
Forged == {[t EXCEPT !.kind = "foreign"] : t \in issued \cup accessIssued}
Presentable == issued \cup accessIssued \cup Forged

\* ---- middleware: authenticate / optionalAuthenticate ---------------------
NoIdentity == [userId |-> 0, email |-> ""]

\* the value validateAccessToken returns: userId and email of the payload
Identity(token) == [userId |-> token.userId, email |-> token.email]

\* authenticate: a missing token throws 'Access token required' inside the
\* try block; the catch rethrows every error as 'Invalid or expired access
\* token'; on success request.user is the returned identity
authenticateOutcome(token, t) ==
  IF token # NoAccess /\ validateAccessTokenResult(token, t) = "ok"
  THEN [raised |-> FALSE, user |-> Identity(token)]
  ELSE [raised |-> TRUE, user |-> NoIdentity]

\* an optional check that lets the error of validateAccessToken escape
optionalAuthenticateRethrows(token, t) ==
  IF token = NoAccess THEN [raised |-> FALSE, user |-> NoIdentity]
  ELSE authenticateOutcome(token, t)

\* optionalAuthenticate: without a token request.user is left undefined;
\* with one, the inner catch sets request.user = undefined when
\* validateAccessToken throws
optionalAuthenticateOutcome(token, t) ==
  IF token = NoAccess THEN [raised |-> FALSE, user |-> NoIdentity]
  ELSE IF validateAccessTokenResult(token, t) = "ok"
  THEN [raised |-> FALSE, user |-> Identity(token)]
  ELSE [raised |-> FALSE, user |-> NoIdentity]

authenticate(p, token) ==
  /\ StartSlot(p)
  /\ Step(p, Finished("authenticate",
                      IF authenticateOutcome(token, now).raised THEN "TokenInvalid" ELSE "ok",
                      token, NoTokens))
  /\ UNCHANGED <<users, store, now, hrtime, nextUid, issued, accessIssued,
                 rotations, soleChain>>

optionalAuthenticate(p, token) ==
  /\ StartSlot(p)
  /\ LET out == optionalAuthenticateOutcome(token, now) IN
       Step(p, Finished("optionalAuthenticate",
                        IF out.raised THEN "TokenInvalid"
                        ELSE IF out.user = NoIdentity THEN "anonymous" ELSE "attached",
                        token, NoTokens))
  /\ UNCHANGED <<users, store, now, hrtime, nextUid, issued, accessIssued,
                 rotations, soleChain>>

\* the token of a request: one the client holds or forges, or none
RequestTokens == Presentable \cup {NoAccess}

\* ---- RefreshTokenService: single deletes and findRefreshToken ------------
\* prisma.refreshToken.delete without the try/catch: a missing row is an error
deleteStrict(recs, victims) ==
  [result |-> IF victims = {} THEN "NotFound" ELSE "void", store |-> recs \ victims]

\* prisma.refreshToken.delete({ where }) inside try/catch: the error of a
\* missing row is caught and ignored
deleteIgnoringMissing(recs, victims) ==
  [result |-> "void", store |-> recs \ victims]

deleteOne(p, victims) ==
  /\ StartSlot(p)
  /\ LET out == deleteIgnoringMissing(store, victims) IN
       /\ store' = out.store
       /\ Step(p, Finished("delete", out.result, NoToken, NoTokens))
  /\ UNCHANGED <<users, now, hrtime, nextUid, issued, accessIssued, rotations, soleChain>>

deleteRefreshToken(p, id) == deleteOne(p, {r \in store : r.id = id})

deleteRefreshTokenByToken(p, token) == deleteOne(p, {r \in store : r.token = token})

deleteRefreshTokenBySessionId(p, sessionId) ==
  deleteOne(p, {r \in store : r.sessionId = sessionId})

\* findRefreshToken: findUnique by token; an expired record is deleted
\* with deleteRefreshToken(id) in a second statement and null is returned
findRefreshToken(p, token) ==
  /\ StartSlot(p)
  /\ LET refreshToken == findUnique(token) IN
       Step(p,
         IF refreshToken # NoRec /\ refreshToken.expiresAt < now
         THEN [IdleProc EXCEPT !.op = "find", !.pc = "findDelete", !.token = token,
                               !.stored = refreshToken]
         ELSE Finished("find", IF refreshToken = NoRec THEN "null" ELSE "found",
                       token, NoTokens))
  /\ UNCHANGED <<users, store, now, hrtime, nextUid, issued, accessIssued, rotations,
                 soleChain>>

\* an expired record is reported as absent but left in the table
findReturnOnly(p) ==
  /\ proc[p].pc = "findDelete"
  /\ Step(p, Finished("find", "null", proc[p].token, NoTokens))
  /\ UNCHANGED <<users, store, now, hrtime, nextUid, issued, accessIssued, rotations,
                 soleChain>>

findDelete(p) ==
  /\ proc[p].pc = "findDelete"
  /\ LET out == deleteIgnoringMissing(store, {r \in store : r.id = proc[p].stored.id}) IN
       /\ store' = out.store
       /\ Step(p, Finished("find", IF out.result = "void" THEN "null" ELSE out.result,
                           proc[p].token, NoTokens))
  /\ UNCHANGED <<users, now, hrtime, nextUid, issued, accessIssued, rotations, soleChain>>

\* the ids and sessionIds of the records ever created
CreatedIds == {t.jti[3] : t \in issued}
CreatedSessionIds == {<<t.exp - RefreshTTL, t.jti[3]>> : t \in issued}

\* the user table after the seed script: sample users, no session
SeedUsers == {[id |-> 1, email |-> "a@x", password |-> "pw1"],
              [id |-> 2, email |-> "b@x", password |-> "pw1"]}

InitSeeded ==
  /\ users = SeedUsers
  /\ store = {}
  /\ proc = [p \in Procs |-> IdleProc]
  /\ now = 0
  /\ hrtime = 0
  /\ nextUid = 3
  /\ issued = {}
  /\ accessIssued = {}
  /\ rotations = {}
  /\ soleChain = {}
  /\ response = NoResponse

\* ---- JwtService.generateTokens called on its own -------------------------
IssueEmails == {"a@x", "b@x"}
IssueVersions == {1, 2}

\* one call of generateTokens(userId, email, tokenVersion); the pair is
\* handed to the caller
IssuePair(userId, email, tokenVersion) ==
  /\ hrtime < MaxIssue
  /\ LET tokens == generateTokens(userId, email, tokenVersion, now, hrtime) IN
       /\ issued' = issued \cup {tokens.refreshToken}
       /\ accessIssued' = accessIssued \cup {tokens.accessToken}
       /\ response' = [result |-> "ok", token |-> tokens.refreshToken]
  /\ hrtime' = hrtime + 1
  /\ UNCHANGED <<users, store, proc, now, nextUid, rotations, soleChain>>

\* the refresh token passes LOOKUP, EXPIRY_CHECK and SIGNATURE_CHECK
ValidRefreshToken(t) ==
  \E r \in store : r.token = t /\ ~(r.expiresAt < now) /\ verifyRefreshToken(t, now)

\* ---- specification ------------------------------------------------------
Next ==
  \/ Tick
  \/ \E p \in Procs :
       \/ \E email \in Emails, password \in Passwords :
            \/ register(p, email, password)
            \/ LoginStart(p, email, password)
       \/ LoginGetVersion(p)
       \/ createRefreshToken(p)
       \/ \E t \in issued : RefreshStart(p, t)
       \/ RefreshDeleteExpired(p)
       \/ RefreshFindUser(p)
       \/ RefreshDeleteMany(p)
       \/ RefreshDeleteWait(p)
       \/ RefreshCreate(p)
       \/ RefreshCrash(p)
       \/ \E uid \in 1..MaxUsers : logout(p, uid)
       \/ deleteAllWait(p)
       \/ \E uid \in 1..MaxUsers, cur \in Passwords, new \in Passwords :
            changePassword(p, uid, cur, new)
       \/ updatePassword(p)
       \/ changePasswordLogout(p)
  \/ \E uid \in 1..MaxUsers : deleteUser(uid)

Spec == Init /\ [][Next]_vars

\* Calls made one after the other: a client that awaits each response
\* before its next request (test-api.sh, the example client).  No statement
\* ever waits for a lock, so the two wait steps are not part of it.
NextSeq ==
  \/ Tick
  \/ \E p \in Procs :
       \/ \E email \in Emails, password \in Passwords :
            \/ (AllFree /\ register(p, email, password))
            \/ (AllFree /\ LoginStart(p, email, password))
       \/ LoginGetVersion(p)
       \/ createRefreshToken(p)
       \/ \E t \in issued : (AllFree /\ RefreshStart(p, t))
       \/ RefreshDeleteExpired(p)
       \/ RefreshFindUser(p)
       \/ RefreshDeleteMany(p)
       \/ RefreshCreate(p)
       \/ RefreshCrash(p)
       \/ \E uid \in 1..MaxUsers : (AllFree /\ logout(p, uid))
       \/ \E uid \in 1..MaxUsers, cur \in Passwords, new \in Passwords :
            (AllFree /\ changePassword(p, uid, cur, new))
       \/ updatePassword(p)
       \/ changePasswordLogout(p)
  \/ \E uid \in 1..MaxUsers : deleteUser(uid)

SpecSeq == Init /\ [][NextSeq]_vars

\* The refresh endpoint under load: concurrent refreshToken and logout
\* calls of registered users, with the transaction's lock waits, rollbacks
\* and the deletion of a user.
NextRotate ==
  \/ Tick
  \/ \E p \in Procs :
       \/ \E email \in Emails, password \in Passwords : register(p, email, password)
       \/ (proc[p].op = "register" /\ createRefreshToken(p))
       \/ \E t \in issued : RefreshStart(p, t)
       \/ RefreshDeleteExpired(p)
       \/ RefreshFindUser(p)
       \/ RefreshDeleteMany(p)
       \/ RefreshDeleteWait(p)
       \/ RefreshCreate(p)
       \/ RefreshCrash(p)
       \/ \E uid \in 1..MaxUsers : logout(p, uid)
       \/ deleteAllWait(p)
  \/ \E uid \in 1..MaxUsers : deleteUser(uid)

SpecRotate == Init /\ [][NextRotate]_vars

\* A registered client that awaits each response and presents any token
\* string it holds or forges to the refresh endpoint and to the protected
\* routes (authenticate calls validateAccessToken), between rotations,
\* logouts, password changes and the deletion of its user.
NextAccess ==
  \/ Tick
  \/ \E p \in Procs :
       \/ \E email \in Emails, password \in Passwords :
            (AllFree /\ register(p, email, password))
       \/ (proc[p].op = "register" /\ createRefreshToken(p))
       \/ \E t \in Presentable : (AllFree /\ RefreshStart(p, t))
       \/ RefreshDeleteExpired(p)
       \/ RefreshFindUser(p)
       \/ RefreshDeleteMany(p)
       \/ RefreshCreate(p)
       \/ \E t \in Presentable : (AllFree /\ validateAccessToken(p, t))
       \/ \E uid \in 1..MaxUsers : (AllFree /\ logout(p, uid))
       \/ \E uid \in 1..MaxUsers, cur \in Passwords, new \in Passwords :
            (AllFree /\ changePassword(p, uid, cur, new))
       \/ updatePassword(p)
       \/ changePasswordLogout(p)
  \/ \E uid \in 1..MaxUsers : deleteUser(uid)

SpecAccess == Init /\ [][NextAccess]_vars


\* The routes guarded by authenticate and optionalAuthenticate, for a client
\* that awaits each response, between registrations, rotations, the expiry
\* of its tokens and the deletion of its user.
NextGuard ==
  \/ Tick
  \/ \E p \in Procs :
       \/ \E email \in Emails, password \in Passwords :
            (AllFree /\ register(p, email, password))
       \/ (proc[p].op = "register" /\ createRefreshToken(p))
       \/ \E t \in issued : (AllFree /\ RefreshStart(p, t))
       \/ RefreshDeleteExpired(p)
       \/ RefreshFindUser(p)
       \/ RefreshDeleteMany(p)
       \/ RefreshCreate(p)
       \/ \E t \in RequestTokens : (AllFree /\ authenticate(p, t))
       \/ \E t \in RequestTokens : (AllFree /\ optionalAuthenticate(p, t))
  \/ \E uid \in 1..MaxUsers : deleteUser(uid)

SpecGuard == Init /\ [][NextGuard]_vars

\* generateTokens called in a loop, for any user, email and version, with
\* the clock advancing or not between two calls.
NextIssue ==
  \/ Tick
  \/ \E userId \in 1..MaxUsers, email \in IssueEmails, tokenVersion \in IssueVersions :
       IssuePair(userId, email, tokenVersion)

SpecIssue == Init /\ [][NextIssue]_vars

\* The single deletes of RefreshTokenService on the sessions that the
\* logins of two seeded users create, for a caller that awaits each call.
NextDelete ==
  \E p \in Procs :
    \/ \E u \in SeedUsers : (AllFree /\ LoginStart(p, u.email, u.password))
    \/ LoginGetVersion(p)
    \/ createRefreshToken(p)
    \/ \E id \in CreatedIds : (AllFree /\ deleteRefreshToken(p, id))
    \/ \E t \in issued : (AllFree /\ deleteRefreshTokenByToken(p, t))
    \/ \E sid \in CreatedSessionIds : (AllFree /\ deleteRefreshTokenBySessionId(p, sid))

SpecDelete == InitSeeded /\ [][NextDelete]_vars

\* The refresh-token table under createRefreshToken (with its cleanup),
\* findRefreshToken and logout as time passes, for two seeded users and a
\* caller that awaits each call.
NextStore ==
  \/ Tick
  \/ \E p \in Procs :
       \/ \E u \in SeedUsers : (AllFree /\ LoginStart(p, u.email, u.password))
       \/ LoginGetVersion(p)
       \/ createRefreshToken(p)
       \/ \E t \in issued : (AllFree /\ findRefreshToken(p, t))
       \/ findDelete(p)
       \/ \E u \in SeedUsers : (AllFree /\ logout(p, u.id))

SpecStore == InitSeeded /\ [][NextStore]_vars

\* Revocation racing with the lazy cleanup of expired records: a logout
\* may run while a login (createRefreshToken's cleanup) or a
\* findRefreshToken is between two statements.
NextRace ==
  \/ Tick
  \/ \E p \in Procs :
       \/ \E u \in SeedUsers : (AllFree /\ LoginStart(p, u.email, u.password))
       \/ LoginGetVersion(p)
       \/ createRefreshToken(p)
       \/ \E t \in issued : (AllFree /\ findRefreshToken(p, t))
       \/ findDelete(p)
       \/ \E u \in SeedUsers : logout(p, u.id)

SpecRace == InitSeeded /\ [][NextRace]_vars

\* Every interleaving of register, login, refreshToken, logout and
\* changePassword of one account within one refresh-token lifetime: no
\* token or record expires, and the account is not deleted.
NextVersion ==
  \E p \in Procs :
    \/ \E email \in Emails, password \in Passwords :
         \/ register(p, email, password)
         \/ LoginStart(p, email, password)
    \/ LoginGetVersion(p)
    \/ createRefreshToken(p)
    \/ \E t \in issued : RefreshStart(p, t)
    \/ RefreshFindUser(p)
    \/ RefreshDeleteMany(p)
    \/ RefreshDeleteWait(p)
    \/ RefreshCreate(p)
    \/ \E uid \in 1..MaxUsers : logout(p, uid)
    \/ deleteAllWait(p)
    \/ \E uid \in 1..MaxUsers, cur \in Passwords, new \in Passwords :
         changePassword(p, uid, cur, new)
    \/ updatePassword(p)
    \/ changePasswordLogout(p)

SpecVersion == Init /\ [][NextVersion]_vars

\* a call that will generate a token pair still finds a pair to generate
\* within the bound: MaxIssue caps the model, the program has no such limit
IssueBudget == hrtime + Cardinality({q \in Procs : proc[q].pc = "findUser"}) < MaxIssue

\* the step of call p that follows its last await, for a refreshToken call
\* and for the deleteMany of a logout that waited
RefreshContinue(p) ==
  \/ RefreshDeleteExpired(p)
  \/ RefreshFindUser(p)
  \/ RefreshDeleteMany(p)
  \/ RefreshDeleteWait(p)
  \/ RefreshCreate(p)

\* Concurrent refreshToken and logout calls of a registered user as time
\* passes.  The event loop resumes every call whose awaited statement has
\* completed, and the database runs a statement as soon as no lock keeps
\* it waiting (weak fairness of each call's next step).
NextLive ==
  \/ Tick
  \/ \E p \in Procs :
       \/ \E email \in Emails, password \in Passwords :
            (IssueBudget /\ register(p, email, password))
       \/ (proc[p].op = "register" /\ createRefreshToken(p))
       \/ \E t \in issued : ((IssueBudget \/ ~ValidRefreshToken(t)) /\ RefreshStart(p, t))
       \/ RefreshDeleteExpired(p)
       \/ RefreshFindUser(p)
       \/ RefreshDeleteMany(p)
       \/ RefreshDeleteWait(p)
       \/ RefreshCreate(p)
       \/ \E uid \in 1..MaxUsers : logout(p, uid)
       \/ deleteAllWait(p)

SpecLive ==
  /\ Init
  /\ [][NextLive]_vars
  /\ \A p \in Procs : WF_vars(RefreshContinue(p)) /\ WF_vars(deleteAllWait(p))

\* ---- utils/errors.ts and the error handler -------------------------------
\* the errors a call can throw: the AppError subclasses with their
\* statusCode and code, and errors that are not AppErrors (jsonwebtoken's
\* two, Prisma's)
NoError == [name |-> "none", statusCode |-> 0, code |-> "", message |-> ""]
AuthenticationError(message) ==
  [name |-> "AuthenticationError", statusCode |-> 401, code |-> "AUTHENTICATION_ERROR",
   message |-> message]
NotFoundError(message) ==
  [name |-> "NotFoundError", statusCode |-> 404, code |-> "NOT_FOUND_ERROR",
   message |-> message]
ConflictError(message) ==
  [name |-> "ConflictError", statusCode |-> 409, code |-> "CONFLICT_ERROR",
   message |-> message]
JsonWebTokenError ==
  [name |-> "JsonWebTokenError", statusCode |-> 0, code |-> "", message |-> "invalid signature"]
TokenExpiredError ==
  [name |-> "TokenExpiredError", statusCode |-> 0, code |-> "", message |-> "jwt expired"]
PrismaError ==
  [name |-> "PrismaClientKnownRequestError", statusCode |-> 0, code |-> "P2025",
   message |-> "Record to delete does not exist."]

AppErrorNames == {"AuthenticationError", "NotFoundError", "ConflictError"}

\* formatError: an AppError keeps its statusCode, message and code; the two
\* jsonwebtoken errors are 401 with their own codes; the rest is 500
formatError(error) ==
  IF error.name \in AppErrorNames
  THEN [statusCode |-> error.statusCode, message |-> error.message, code |-> error.code]
  ELSE IF error.name = "JsonWebTokenError"
  THEN [statusCode |-> 401, message |-> "Invalid token", code |-> "INVALID_TOKEN"]
  ELSE IF error.name = "TokenExpiredError"
  THEN [statusCode |-> 401, message |-> "Token expired", code |-> "TOKEN_EXPIRED"]
  ELSE [statusCode |-> 500, message |-> "Internal server error", code |-> "INTERNAL_ERROR"]

\* errorHandler: the reply has the status of formatError and a JSON body
\* whose member `error' holds statusCode, message and code (timestamp, path
\* and method are left out)
errorHandler(error) ==
  LET formattedError == formatError(error) IN
    [statusCode |-> formattedError.statusCode,
     body |-> [error |-> [statusCode |-> formattedError.statusCode,
                          message |-> formattedError.message,
                          code |-> formattedError.code]]]

\* jwt.verify(token, secret): the signature is checked before exp
jwtVerify(token, kind, t) ==
  IF token.kind # kind THEN JsonWebTokenError
  ELSE IF ~(t < token.exp) THEN TokenExpiredError
  ELSE NoError

\* what verifyRefreshToken throws: its catch replaces the error of
\* jwt.verify
verifyRefreshTokenThrows(token, t) ==
  IF jwtVerify(token, "refresh", t) = NoError THEN NoError
  ELSE AuthenticationError("Invalid or expired refresh token")

\* what verifyAccessToken throws
verifyAccessTokenThrows(token, t) ==
  IF jwtVerify(token, "access", t) = NoError THEN NoError
  ELSE AuthenticationError("Invalid or expired access token")

\* what validateAccessToken throws: the catch replaces whatever was thrown
\* in its try block
validateAccessTokenThrows(token, t) ==
  LET inner == IF verifyAccessTokenThrows(token, t) # NoError
               THEN verifyAccessTokenThrows(token, t)
               ELSE IF UserById(token.userId) = NoUser
               THEN AuthenticationError("User not found")
               ELSE NoError
  IN IF inner = NoError THEN NoError
     ELSE AuthenticationError("Invalid or expired access token")

\* a login that tells an unknown email from a wrong password
loginThrowsWhichFailed(email, password) ==
  LET user == UserByEmail(email) IN
    IF user = NoUser THEN AuthenticationError("User not found")
    ELSE IF user.password # password THEN AuthenticationError("Invalid email or password")
    ELSE NoError

\* what login throws after findUserByEmail and validatePassword
loginThrows(email, password) ==
  LET user == UserByEmail(email) IN
    IF user = NoUser THEN AuthenticationError("Invalid email or password")
    ELSE IF user.password # password THEN AuthenticationError("Invalid email or password")
    ELSE NoError

\* what changePassword throws after findUserById and validatePassword
changePasswordThrows(uid, currentPassword) ==
  LET user == UserById(uid) IN
    IF user = NoUser THEN AuthenticationError("User not found")
    ELSE IF user.password # currentPassword
    THEN AuthenticationError("Current password is incorrect")
    ELSE NoError

\* the error with which a refreshToken call that presented `token' ends in
\* `result': the throw statements of refreshToken, the error of
\* verifyRefreshToken, and the error of a Prisma statement
refreshTokenThrows(result, token, t) ==
  IF result = "SessionNotFound" THEN AuthenticationError("Invalid or expired refresh token")
  ELSE IF result = "RefreshTokenExpired" THEN AuthenticationError("Refresh token has expired")
  ELSE IF result = "TokenInvalid" THEN verifyRefreshTokenThrows(token, t)
  ELSE IF result = "UserNotFound" THEN AuthenticationError("User not found")
  ELSE IF result = "TokenVersionMismatch" THEN AuthenticationError("Invalid refresh token version")
  ELSE IF result = "DbError" THEN PrismaError
  ELSE NoError

\* ---- the example client: class AuthAPI -----------------------------------
\* The client is one more process: proc[Client] holds its two tokens, the
\* position of its current call and the call's outcome.  It awaits every
\* reply, so the server serves one of its requests at a time.
Client == 0

IdleClient == [pc |-> "idle", accessToken |-> NoAccess, refreshToken |-> NoToken,
               caller |-> "none", outcome |-> "none"]

InitClient ==
  /\ users = {}
  /\ store = {}
  /\ proc = [p \in Procs \cup {Client} |-> IF p = Client THEN IdleClient ELSE IdleProc]
  /\ now = 0
  /\ hrtime = 0
  /\ nextUid = 1
  /\ issued = {}
  /\ accessIssued = {}
  /\ rotations = {}
  /\ soleChain = {}
  /\ response = NoResponse

\* a member of a parsed JSON object; a member that is absent is undefined
Member(data, name) == IF name \in DOMAIN data THEN data[name] ELSE "undefined"

\* the reply to a request that the authenticate hook rejected (it rethrows
\* every failure as 'Invalid or expired access token'), or that the route
\* answered
profileReply(result) ==
  IF result = "ok" THEN [statusCode |-> 200, body |-> [success |-> TRUE]]
  ELSE errorHandler(AuthenticationError("Invalid or expired access token"))

\* the reply of the refresh route
refreshReply(result, token, t) ==
  IF result = "ok" THEN [statusCode |-> 200, body |-> [success |-> TRUE]]
  ELSE errorHandler(refreshTokenThrows(result, token, t))

\* the pair in the reply of the call that just returned one
ReturnedTokens ==
  [accessToken |-> CHOOSE a \in accessIssued : a.jti[3] = hrtime - 1,
   refreshToken |-> CHOOSE r \in issued : r.jti[3] = hrtime - 1]

\* a step of the client alone
ClientStep(nc) ==
  /\ proc' = [proc EXCEPT ![Client] = nc]
  /\ response' = NoResponse
  /\ UNCHANGED <<users, store, now, hrtime, nextUid, issued, accessIssued, rotations,
                 soleChain>>

\* setTokens on the reply to register
setTokens ==
  /\ proc[Client].pc = "idle"
  /\ response = [result |-> "ok", token |-> NoToken]
  /\ hrtime > 0
  /\ ClientStep([proc[Client] EXCEPT !.accessToken = ReturnedTokens.accessToken,
                                     !.refreshToken = ReturnedTokens.refreshToken,
                                     !.outcome = "registered"])

\* auth.accessToken = 'invalid.token.here': a string that is not a token
\* of this server
invalidateAccessToken ==
  /\ proc[Client].pc = "idle"
  /\ proc[Client].accessToken \in accessIssued
  /\ ClientStep([proc[Client] EXCEPT !.accessToken = [@ EXCEPT !.kind = "foreign"],
                                     !.outcome = "none"])

\* getProfile: makeRequest('/api/auth/profile') begins
getProfile ==
  /\ proc[Client].pc = "idle"
  /\ ClientStep([proc[Client] EXCEPT !.pc = "fetch", !.caller = "none", !.outcome = "none"])

\* fetch(url, config) of makeRequest, the first one or the retry: the
\* server runs the authenticate hook on the Bearer token
fetchProfile(p) ==
  /\ proc[Client].pc \in {"fetch", "retry"}
  /\ response = NoResponse
  /\ authenticate(p, proc[Client].accessToken)

\* makeRequest after a fetch: the test of response.status and data.code,
\* the return of the retry's body, the throw when the reply is not ok
makeRequest ==
  /\ proc[Client].pc \in {"fetch", "retry"}
  /\ response.result # "none"
  /\ LET reply == profileReply(response.result)
         data == reply.body
     IN ClientStep(
          IF proc[Client].pc = "retry"
          THEN [proc[Client] EXCEPT !.pc = "idle", !.outcome = "returned"]
          ELSE IF reply.statusCode = 401 /\ Member(data, "code") = "AUTHENTICATION_ERROR"
          THEN [proc[Client] EXCEPT !.pc = "refreshing", !.caller = "makeRequest"]
          ELSE IF reply.statusCode # 200
          THEN [proc[Client] EXCEPT !.pc = "idle", !.outcome = "RequestFailed"]
          ELSE [proc[Client] EXCEPT !.pc = "idle", !.outcome = "returned"])

\* refreshAccessToken called by the application
refreshAccessToken ==
  /\ proc[Client].pc = "idle"
  /\ ClientStep([proc[Client] EXCEPT !.pc = "refreshing", !.caller = "manual",
                                     !.outcome = "none"])

\* after a refresh that failed makeRequest logs out (the tokens are
\* cleared) and throws 'Session expired'; the application gets false
refreshFailed(c) ==
  IF c.caller = "makeRequest"
  THEN [IdleClient EXCEPT !.outcome = "SessionExpired"]
  ELSE [c EXCEPT !.pc = "idle", !.outcome = "false"]

\* refreshAccessToken without a refresh token returns false
refreshWithoutToken ==
  /\ proc[Client].pc = "refreshing"
  /\ proc[Client].refreshToken = NoToken
  /\ ClientStep(refreshFailed(proc[Client]))

\* fetch of refreshAccessToken: POST /api/auth/refresh with the refresh
\* token as Bearer
fetchRefresh(p) ==
  /\ proc[Client].pc = "refreshing"
  /\ proc[Client].refreshToken # NoToken
  /\ response = NoResponse
  /\ AllFree
  /\ RefreshStart(p, proc[Client].refreshToken)

\* refreshAccessToken after its fetch: setTokens when the reply is ok and
\* has success; then makeRequest retries with the new access token
refreshReturned ==
  /\ proc[Client].pc = "refreshing"
  /\ response.result # "none"
  /\ LET reply == refreshReply(response.result, response.token, now)
         data == reply.body
     IN ClientStep(
          IF reply.statusCode = 200 /\ Member(data, "success") = TRUE
          THEN [proc[Client] EXCEPT !.accessToken = ReturnedTokens.accessToken,
                                    !.refreshToken = ReturnedTokens.refreshToken,
                                    !.pc = IF @ = "refreshing" /\ proc[Client].caller = "makeRequest"
                                           THEN "retry" ELSE "idle",
                                    !.outcome = IF proc[Client].caller = "makeRequest"
                                                THEN "none" ELSE "true"]
          ELSE refreshFailed(proc[Client]))

\* The example client against the server: it registers, reads its profile,
\* refreshes, and may hold an access token the server rejects.  The clock
\* moves between the client's calls.
NextClient ==
  \/ (proc[Client].pc = "idle" /\ Tick)
  \/ \E p \in Procs :
       \/ \E email \in Emails, password \in Passwords :
            (proc[Client].pc = "idle" /\ response = NoResponse /\ AllFree
               /\ register(p, email, password))
       \/ (proc[p].op = "register" /\ createRefreshToken(p))
       \/ fetchProfile(p)
       \/ fetchRefresh(p)
       \/ RefreshDeleteExpired(p)
       \/ RefreshFindUser(p)
       \/ RefreshDeleteMany(p)
       \/ RefreshCreate(p)
  \/ setTokens
  \/ invalidateAccessToken
  \/ getProfile
  \/ makeRequest
  \/ refreshAccessToken
  \/ refreshWithoutToken
  \/ refreshReturned

SpecClient == InitClient /\ [][NextClient]_vars

\* ---- properties ---------------------------------------------------------
\* the step is the commit of a successful refreshToken of call p
RotateCommit(p) == RefreshCreate(p) /\ response'.result = "ok"

\* the step is any step of a refreshToken call p
RefreshStep(p) ==
  \/ \E t \in issued : RefreshStart(p, t)
  \/ RefreshDeleteExpired(p)
  \/ RefreshFindUser(p)
  \/ RefreshDeleteMany(p)
  \/ RefreshDeleteWait(p)
  \/ RefreshCreate(p)
  \/ RefreshCrash(p)

\* the step is any step of a login call p
LoginStep(p) ==
  \/ \E email \in Emails, password \in Passwords : LoginStart(p, email, password)
  \/ LoginGetVersion(p)
  \/ (proc[p].op = "login" /\ createRefreshToken(p))

\* a token string that left the table is never inserted again
NeverReinserted ==
  \A t \in issued : t \notin TokensOf(store) => t \notin TokensOf(store')

\* refreshToken with a token that has no record fails at LOOKUP and
\* writes nothing
AbsentNotFound ==
  \A p \in Procs, t \in issued :
    (RefreshStart(p, t) /\ t \notin TokensOf(store))
      => (response' = [result |-> "SessionNotFound", token |-> t] /\ store' = store
          /\ hrtime' = hrtime /\ issued' = issued)

\* C1: of the refreshToken calls that present the same stored token at
\* most one returns a token pair: no token is rotated successfully twice.
C1_ExactlyOneWinner ==
  \A r1 \in rotations, r2 \in rotations : r1.old = r2.old => r1 = r2

\* C2: when the only calls made for a user after register were
\* refreshToken calls with the register token, one of them succeeded and
\* all have completed, the user has exactly one session record.
C2_OneRecordAfterConcurrentRotates ==
  \A c \in soleChain :
    (AllFree /\ c.token \in Consumed) => Cardinality(UserRecords(c.uid)) = 1

\* C3: sequential replay.  The first refreshToken(R1) of a registered
\* user, run alone, succeeds and leaves as the user's only record the one
\* keyed to the returned R2 at version 2; every refreshToken(R1) started
\* after a successful rotation of R1 fails with SessionNotFound, generates
\* no token and leaves the table as it is.
C3_SequentialReplay ==
  [][ /\ \A p \in Procs, t \in issued :
           (RefreshStart(p, t) /\ t \in Consumed)
             => /\ response' = [result |-> "SessionNotFound", token |-> t]
                /\ store' = store /\ hrtime' = hrtime /\ issued' = issued
      /\ \A p \in Procs, c \in soleChain :
           (RefreshCreate(p) /\ proc[p].token = c.token /\ rotations = {}
              /\ \A q \in Procs \ {p} : Free(q))
             => /\ response' = [result |-> "ok", token |-> c.token]
                /\ {r \in store' : r.userId = c.uid}
                     = {NewRecord(proc[p].tokens.refreshToken, c.uid, 2, proc[p].expiresAt)}
    ]_vars

C3_Witness ==
  /\ response.result = "SessionNotFound"
  /\ response.token \in Consumed
  /\ \E c \in soleChain : c.token = response.token
  /\ \E r \in rotations : r.old = response.token /\ r.new \in TokensOf(store)

\* C4: when a refreshToken call on a record of version v returns, the
\* user's session records are exactly the one it created, keyed to the
\* returned refresh token at version v+1.
C4_OnlyTheNewRecord ==
  [][ \A p \in Procs :
        RotateCommit(p)
          => {r \in store' : r.userId = proc[p].uid}
               = {NewRecord(proc[p].tokens.refreshToken, proc[p].uid,
                            proc[p].stored.tokenVersion + 1, proc[p].expiresAt)}
    ]_vars

\* C5: single active chain.  Every token the user had stored when a
\* refreshToken call began has no record once that call returns its pair,
\* never gets one again, and a refreshToken started with it fails with
\* SessionNotFound.
C5_SingleActiveChain ==
  [][ /\ \A p \in Procs :
           RotateCommit(p) => proc[p].atStart \cap TokensOf(store') = {}
      /\ NeverReinserted
      /\ AbsentNotFound
    ]_vars

\* a login token RB lost its record to the rotation of RA, and the
\* refreshToken(RB) that just ended failed with SessionNotFound
C5_Witness ==
  /\ response.result = "SessionNotFound"
  /\ response.token \in issued \ Consumed
  /\ \E r \in rotations :
       /\ r.old # response.token
       /\ r.old.userId = response.token.userId
       /\ r.old.tokenVersion = response.token.tokenVersion
       /\ response.token.jti[3] < r.new.jti[3]
       /\ r.new \in TokensOf(store)

\* C6: no step of a login removes an unexpired session record, and every
\* stored record whose token is unexpired passes all checks of
\* refreshToken (record unexpired, signature, user, version) and so can
\* be rotated.
C6_LoginKeepsSessions ==
  /\ [](\A r \in store :
          verifyRefreshToken(r.token, now)
            => /\ ~(r.expiresAt < now)
               /\ UserById(r.token.userId) # NoUser
               /\ r.token.tokenVersion = r.tokenVersion)
  /\ [][ \A p \in Procs :
           LoginStep(p) => \A r \in store : ~(r.expiresAt < now) => r \in store'
       ]_vars

\* the register token was rotated successfully after a later login had
\* stored its own token
C6_Witness ==
  /\ response.result = "ok"
  /\ response.token \in Consumed
  /\ response.token.tokenVersion = 1
  /\ \E t \in issued \ Consumed :
       /\ t.userId = response.token.userId
       /\ t.tokenVersion = 1
       /\ t.jti[3] > response.token.jti[3]
       /\ t \notin TokensOf(store)

\* C7: when logout, logoutAllDevices or a successful changePassword of u
\* completes, u has no session record.
C7_RevokedUserHasNoSession ==
  [][ \A p \in Procs :
        /\ \A uid \in 1..MaxUsers :
             (logout(p, uid) /\ response'.result = "ok")
               => {r \in store' : r.userId = uid} = {}
        /\ ((deleteAllWait(p) \/ changePasswordLogout(p)) /\ response'.result = "ok")
               => {r \in store' : r.userId = proc[p].uid} = {}
    ]_vars

\* C8: a refreshToken that returns a pair consumed the record it looked
\* up: no logout and no other rotation removed that record between its
\* LOOKUP and its writes.
C8_RotateIsAtomic ==
  [][ \A p \in Procs :
        (RotateCommit(p) /\ ~(proc[p].stored.expiresAt < now))
          => proc[p].stored \in store
    ]_vars

\* C9: rotation is all-or-nothing.  Every step of a refreshToken call,
\* a crash or error after its delete-all included, either leaves the
\* committed table as it is or removes the deleted records and inserts
\* the new one together.
C9_AllOrNothing ==
  [][ \A p \in Procs :
        RefreshStep(p)
          => \/ store' = store
             \/ /\ response'.result = "ok"
                /\ store' = {r \in store : r.id \notin proc[p].pending}
                     \cup {NewRecord(proc[p].tokens.refreshToken, proc[p].uid,
                                     proc[p].version, proc[p].expiresAt)}
    ]_vars

\* a transaction has deleted the user's records and not yet created the
\* new one, and the committed table still holds them
C9_Witness ==
  \E p \in Procs :
    /\ proc[p].op = "refresh" /\ proc[p].pc = "create"
    /\ proc[p].pending # {}
    /\ proc[p].pending \subseteq Ids(store)

\* C10: a refreshToken call that fails at a check before ROTATE leaves the
\* session table exactly as it was.
CheckFailures == {"SessionNotFound", "RefreshTokenExpired", "TokenInvalid",
                  "UserNotFound", "TokenVersionMismatch"}

Presented(p) == Presentable \cap {response.token, proc[p].token}

\* C11: a refreshToken call that finds its record expired fails with
\* RefreshTokenExpired and has deleted the record when it returns, so the
\* token has no record afterwards (and a later refreshToken with it ends at
\* LOOKUP with SessionNotFound).
C11_ExpiredRecordDeleted ==
  [][ \A p \in Procs :
        RefreshDeleteExpired(p)
          => /\ response'.result = "RefreshTokenExpired"
             /\ proc[p].token \notin TokensOf(store')
    ]_vars

\* C12: refreshToken on a token string that has no record in the store
\* (never issued, consumed by a rotation, or revoked) fails with
\* SessionNotFound whatever the token's signature, expiry or claims, and
\* writes and issues nothing.
C12_NoRecordIsSessionNotFound ==
  [][ \A p \in Procs : \A t \in Presented(p)' :
        ((\A r \in store : r.token # t) /\ RefreshStart(p, t))
          => /\ response' = [result |-> "SessionNotFound", token |-> t]
             /\ proc'[p] = IdleProc
             /\ UNCHANGED <<store, issued, accessIssued, rotations>>
    ]_vars

\* a validly signed, unexpired refresh token whose record is gone was just
\* answered with SessionNotFound
C12_Witness ==
  /\ response.result = "SessionNotFound"
  /\ response.token \in issued
  /\ verifyRefreshToken(response.token, now)
  /\ response.token \notin TokensOf(store)

\* C13: in every reachable state every session record carries the
\* tokenVersion and the userId that are the claims of the token it stores,
\* whether register, login or refreshToken created it.
C13_RecordMatchesClaims ==
  \A r \in store :
    /\ r.tokenVersion = r.token.tokenVersion
    /\ r.userId = r.token.userId

\* a record created by a rotation (version 2) next to a record a later
\* login created for the same user
C13_Witness ==
  \E r1 \in store, r2 \in store :
    /\ r1 # r2
    /\ r1.userId = r2.userId
    /\ r1.tokenVersion = 2
    /\ r1.token \in {x.new : x \in rotations}
    /\ r2.token \notin {x.new : x \in rotations}

\* C14: the version login reads with getUserTokenVersion is the maximum
\* tokenVersion among the user's unexpired records, and 1 when the user has
\* no unexpired record: expired records still stored do not count.
C14_VersionOfLiveRecords ==
  [][ \A p \in Procs :
        LoginGetVersion(p)
          => LET live == {r \in UserRecords(proc[p].uid) : ~(r.expiresAt < now)}
             IN proc'[p].version =
                  IF live = {} THEN 1 ELSE Max({r.tokenVersion : r \in live})
    ]_vars

\* C15: register and login create their session record, and sign their
\* tokens, at the user's current version as it stands when the record is
\* inserted: 1 for register, and for login the value getUserTokenVersion has
\* at the insert, also when a rotation committed after login read it.
C15_InsertAtCurrentVersion ==
  [][ \A p \in Procs :
        (createRefreshToken(p) /\ response'.result = "ok")
          => /\ proc[p].version = getUserTokenVersion(proc[p].uid)
             /\ proc[p].tokens.refreshToken.tokenVersion = getUserTokenVersion(proc[p].uid)
             /\ proc[p].op = "register" => proc[p].version = 1
    ]_vars

C17_LogoutRevokesAccessToken ==
  [][ \A p \in Procs, uid \in 1..MaxUsers :
        (logout(p, uid) /\ response'.result = "ok")
          => \A t \in accessIssued :
               t.userId = uid => validateAccessTokenResult(t, now)' # "ok"
    ]_vars

\* C18: logout invalidates tokens by incrementing the user's token version:
\* when logout(u) returns, getUserTokenVersion(u) (the version of the next
\* login's tokens) is greater than the version of every token issued to u
\* before; and no token is issued to a user at a version below one issued
\* to that user earlier.
C18_LogoutIncrementsVersion ==
  [][ /\ \A p \in Procs, uid \in 1..MaxUsers :
           (logout(p, uid) /\ response'.result = "ok")
             => \A t \in issued :
                  t.userId = uid => getUserTokenVersion(uid)' > t.tokenVersion
      /\ \A t \in issued' \ issued : \A o \in issued :
           o.userId = t.userId => o.tokenVersion <= t.tokenVersion
    ]_vars

\* C19: validateAccessToken of a validly signed, unexpired access token
\* whose user has been deleted fails with UserNotFound, an error that
\* differs from the one of an invalid or expired token.
C19_DeletedUserIsUserNotFound ==
  [][ \A p \in Procs : \A t \in Presented(p)' :
        (/\ t \in accessIssued
         /\ verifyAccessToken(t, now)
         /\ UserById(t.userId) = NoUser
         /\ validateAccessToken(p, t))
          => response' = [result |-> "UserNotFound", token |-> t]
    ]_vars

\* C20: a token of one kind never authorizes the operation of the other
\* kind. validateAccessToken rejects with TokenInvalid every token that
\* was not signed with the access secret, a refresh token this system
\* issued included; refreshToken never accepts a token that was not signed
\* with the refresh secret, an access token included: the call fails at
\* once and writes and issues nothing.
C20_KindsNeverCross ==
  [][ \A p \in Procs : \A t \in Presented(p)' :
        /\ (t.kind # "access" /\ validateAccessToken(p, t))
              => response' = [result |-> "TokenInvalid", token |-> t]
        /\ (t.kind # "refresh" /\ RefreshStart(p, t))
              => /\ response'.token = t
                 /\ response'.result \in {"SessionNotFound", "TokenInvalid"}
                 /\ proc'[p] = IdleProc
                 /\ UNCHANGED <<store, issued, accessIssued, rotations>>
    ]_vars

\* a refresh token of this system, unexpired and with its record in the
\* store, was just rejected by validateAccessToken
C20_Witness ==
  /\ response.result = "TokenInvalid"
  /\ response.token \in issued
  /\ verifyRefreshToken(response.token, now)
  /\ response.token \in TokensOf(store)
  /\ UserById(response.token.userId) # NoUser

\* C21: optionalAuthenticate never raises, whatever the token (absent,
\* malformed or foreign-signed, expired, of a deleted user); it attaches
\* exactly the identity authenticate attaches when authenticate succeeds,
\* and no identity in every other case.
C21_OptionalNeverRaises ==
  [][ \A p \in Procs : \A t \in RequestTokens :
        (t \in {response'.token} /\ optionalAuthenticate(p, t))
          => LET opt == optionalAuthenticateOutcome(t, now)
                 auth == authenticateOutcome(t, now)
             IN /\ ~opt.raised
                /\ opt.user = IF auth.raised THEN NoIdentity ELSE auth.user
                /\ response'.result = IF auth.raised THEN "anonymous" ELSE "attached"
    ]_vars

\* optionalAuthenticate just let a request through without identity
\* although it carried an unexpired access token: its user was deleted
C21_Witness ==
  /\ response.result = "anonymous"
  /\ response.token \in accessIssued
  /\ verifyAccessToken(response.token, now)
  /\ UserById(response.token.userId) = NoUser

\* C22: for all (userId, email, version) generateTokens returns an access
\* token whose claims are exactly userId and email and a refresh token
\* whose claims are exactly userId and tokenVersion = version (besides jti
\* and the expiry), and the two jti differ.
C22_ClaimsMatchInputs ==
  [][ \A userId \in 1..MaxUsers, email \in IssueEmails, tokenVersion \in IssueVersions :
        IssuePair(userId, email, tokenVersion)
          => \E a \in accessIssued' \ accessIssued, r \in issued' \ issued :
               /\ accessIssued' = accessIssued \cup {a}
               /\ issued' = issued \cup {r}
               /\ DOMAIN a = {"kind", "userId", "email", "jti", "exp"}
               /\ a.userId = userId /\ a.email = email
               /\ DOMAIN r = {"kind", "userId", "tokenVersion", "jti", "exp"}
               /\ r.userId = userId /\ r.tokenVersion = tokenVersion
               /\ a.jti # r.jti
    ]_vars

\* pairs issued for both emails and both versions
C22_Witness ==
  /\ \E a1 \in accessIssued, a2 \in accessIssued : a1.email # a2.email
  /\ \E r1 \in issued, r2 \in issued : r1.tokenVersion # r2.tokenVersion

\* C23: no two token pairs ever issued share a jti, so no two refresh
\* token strings issued are equal, also when the pairs are issued for the
\* same user at the same version within the same clock tick: every call
\* of generateTokens (hrtime counts them) added two new jti values.
C23_JtiNeverCollides ==
  /\ Cardinality(issued) = hrtime
  /\ Cardinality(accessIssued) = hrtime
  /\ Cardinality({t.jti : t \in issued \cup accessIssued}) = 2 * hrtime

\* three pairs were issued for one user at one version in one tick
C23_Witness ==
  /\ hrtime = 3
  /\ \A r1 \in issued, r2 \in issued :
       r1.userId = r2.userId /\ r1.tokenVersion = r2.tokenVersion /\ r1.exp = r2.exp
  /\ \A a1 \in accessIssued, a2 \in accessIssued : a1.email = a2.email

C25_SingleDeletesIdempotent ==
  [][ \A p \in Procs :
        /\ \A id \in CreatedIds :
             deleteRefreshToken(p, id)
               => /\ response'.result = "void"
                  /\ store' = {r \in store : r.id # id}
                  /\ Cardinality(store \ store') <= 1
                  /\ id \notin Ids(store')
        /\ \A t \in issued :
             deleteRefreshTokenByToken(p, t)
               => /\ response'.result = "void"
                  /\ store' = {r \in store : r.token # t}
                  /\ Cardinality(store \ store') <= 1
                  /\ t \notin TokensOf(store')
        /\ \A sid \in CreatedSessionIds :
             deleteRefreshTokenBySessionId(p, sid)
               => /\ response'.result = "void"
                  /\ store' = {r \in store : r.sessionId # sid}
                  /\ Cardinality(store \ store') <= 1
                  /\ \A r \in store' : r.sessionId # sid
    ]_vars

\* a single delete just ended without error while both users hold a
\* session and a record created earlier is gone
C25_Witness ==
  /\ response.result = "void"
  /\ \A u \in SeedUsers : UserRecords(u.id) # {}
  /\ Cardinality(issued) > Cardinality(store)

\* C26: createRefreshToken(token, userId, ...) deletes every already
\* expired record of that user and inserts the new record: afterwards the
\* user's records are its previously unexpired records plus the new one,
\* and the records of every other user, expired or not, are unchanged.
C26_CleanupOnlyOwnExpired ==
  [][ \A p \in Procs :
        (createRefreshToken(p) /\ response'.result = "ok")
          => LET uid == proc[p].uid
                 new == {r \in store' : r.token = proc[p].tokens.refreshToken}
             IN /\ Cardinality(new) = 1
                /\ new \cap store = {}
                /\ \A r \in new : r.userId = uid
                /\ {r \in store' : r.userId = uid}
                     = {r \in store : r.userId = uid /\ ~(r.expiresAt < now)} \cup new
                /\ {r \in store' : r.userId # uid} = {r \in store : r.userId # uid}
    ]_vars

\* a login just ended: the expired record of that user is gone, its new
\* record is stored, and an expired record of the other user is still there
C26_Witness ==
  /\ response.result = "ok"
  /\ \E r1 \in store, r2 \in store :
       /\ r1.userId # r2.userId
       /\ r1.expiresAt < now
       /\ r2.expiresAt = now + RefreshTTL
       /\ \A r \in UserRecords(r2.userId) : ~(r.expiresAt < now)
       /\ \E t \in issued :
            t.userId = r2.userId /\ t.exp < now /\ t \notin TokensOf(store)

\* C27: findRefreshToken(token) returns the record when it exists and is
\* unexpired and leaves the store unchanged; when the record exists but is
\* expired it deletes exactly that record and returns none; when no record
\* exists it returns none and changes nothing.
C27_FindDeletesOnlyExpired ==
  [][ \A p \in Procs :
        /\ \A t \in issued :
             findRefreshToken(p, t)
               => LET found == {r \in store : r.token = t} IN
                  /\ store' = store
                  /\ found = {} => response' = [result |-> "null", token |-> t]
                  /\ (found # {} /\ \A r \in found : ~(r.expiresAt < now))
                       => response' = [result |-> "found", token |-> t]
                  /\ (\E r \in found : r.expiresAt < now)
                       => (response' = NoResponse /\ proc'[p].pc = "findDelete")
        /\ findDelete(p)
             => /\ response' = [result |-> "null", token |-> proc[p].token]
                /\ store' = {r \in store : r.token # proc[p].token}
                /\ Cardinality(store \ store') = 1
    ]_vars

\* findRefreshToken just returned none for an expired record, which it
\* deleted: another expired record of the same user is still stored, so no
\* cleanup and no logout removed it
C27_Witness ==
  /\ response.result = "null"
  /\ response.token.exp < now
  /\ response.token \notin TokensOf(store)
  /\ \E r \in store : r.userId = response.token.userId /\ r.expiresAt < now

\* C28: a logout racing with the lazy cleanup of an expired record is
\* harmless: whatever the interleaving, findRefreshToken's delete and
\* createRefreshToken's cleanup end without raising, so does the logout,
\* and the expired record is absent afterwards.
C28_LogoutCleanupRaceHarmless ==
  [][ \A p \in Procs :
        /\ findDelete(p)
             => /\ response' = [result |-> "null", token |-> proc[p].token]
                /\ proc[p].stored \notin store'
        /\ createRefreshToken(p)
             => /\ response'.result = "ok"
                /\ \A r \in store' : ~(r.userId = proc[p].uid /\ r.expiresAt < now)
        /\ \A u \in SeedUsers :
             logout(p, u.id)
               => /\ response'.result = "ok"
                  /\ \A r \in store' : r.userId # u.id
    ]_vars

\* a logout has just returned while a findRefreshToken is between its
\* findUnique and its delete: the expired record it is about to delete is
\* already gone
C28_Witness ==
  /\ response.result = "ok"
  /\ \E p \in Procs :
       /\ proc[p].pc = "findDelete"
       /\ proc[p].stored.expiresAt < now
       /\ proc[p].stored \notin store

\* C29: refreshToken never succeeds on an expired record, and a record is
\* expired when record.expiresAt <= now: a record whose expiresAt equals
\* the current time is rejected with RefreshTokenExpired (the call goes on
\* to the delete of the expired record and its throw), like one whose
\* expiresAt is in the past.
C29_ExpiredAtTheBoundary ==
  [][ \A p \in Procs :
        /\ RotateCommit(p) => now < proc[p].stored.expiresAt
        /\ \A t \in issued :
             (RefreshStart(p, t) /\ \E r \in store : r.token = t /\ r.expiresAt <= now)
               => proc'[p].pc = "deleteExpired"
        /\ (RefreshDeleteExpired(p) /\ proc[p].stored \in store)
             => response'.result = "RefreshTokenExpired"
    ]_vars

\* C30: refreshToken applies its checks in the order LOOKUP, EXPIRY_CHECK,
\* SIGNATURE_CHECK, USER_CHECK, VERSION_CHECK, ROTATE.  The outcome is the
\* error of the earliest failing check: without a record SessionNotFound
\* whatever the signature; with an expired record RefreshTokenExpired
\* whatever the signature and also when the user is missing; then
\* TokenInvalid, UserNotFound, TokenVersionMismatch; and the store is
\* written only by the ROTATE of a call that passed all five checks.
C30_ChecksInOrder ==
  [][ \A p \in Procs :
        /\ \A t \in Presented(p)' :
             RefreshStart(p, t)
               => LET found == {r \in store : r.token = t} IN
                  /\ found = {} => response'.result = "SessionNotFound"
                  /\ (\E r \in found : r.expiresAt < now)
                       => proc'[p].pc = "deleteExpired"
                  /\ (\E r \in found : ~(r.expiresAt < now)) /\ ~verifyRefreshToken(t, now)
                       => response'.result = "TokenInvalid"
                  /\ (\E r \in found : ~(r.expiresAt < now)) /\ verifyRefreshToken(t, now)
                       => proc'[p].pc = "findUser"
        /\ RefreshDeleteExpired(p) => response'.result = "RefreshTokenExpired"
        /\ RefreshFindUser(p)
             => /\ UserById(proc[p].token.userId) = NoUser
                     => response'.result = "UserNotFound"
                /\ (/\ UserById(proc[p].token.userId) # NoUser
                    /\ proc[p].token.tokenVersion # proc[p].stored.tokenVersion)
                     => response'.result = "TokenVersionMismatch"
                /\ (/\ UserById(proc[p].token.userId) # NoUser
                    /\ proc[p].token.tokenVersion = proc[p].stored.tokenVersion)
                     => proc'[p].pc = "deleteMany"
        /\ (RefreshStep(p) /\ store' # store)
             => (proc[p].pc = "create" /\ response'.result = "ok")
    ]_vars

\* C31: a refreshToken whose record is stored and unexpired and whose
\* token verifies, but whose user no longer exists at USER_CHECK, fails
\* with UserNotFound, generates no token and writes nothing; a deleted
\* user has no session record, and no refreshToken call returns a pair for
\* a token of a user that does not exist.
C31_DeletedUserCannotRotate ==
  /\ [](\A r \in store : UserById(r.userId) # NoUser)
  /\ [][ \A p \in Procs :
           /\ (RefreshFindUser(p) /\ UserById(proc[p].token.userId) = NoUser)
                => /\ response' = [result |-> "UserNotFound", token |-> proc[p].token]
                   /\ store' = store /\ issued' = issued /\ hrtime' = hrtime
           /\ RotateCommit(p)
                => \E u \in users' : u.id = proc[p].token.userId
       ]_vars

\* a refreshToken call found its record, the user was deleted before the
\* call looked the user up, and the call ended with UserNotFound
C31_Witness ==
  /\ response.result = "UserNotFound"
  /\ response.token \in issued
  /\ UserById(response.token.userId) = NoUser
  /\ response.token.userId < nextUid

\* C32: every session record that register, login or refreshToken creates
\* has expiresAt = creation time + the refresh TTL, which is the exp claim
\* of the token it stores; so at every moment a stored record is unexpired
\* for the service (its expiry test does not fire) exactly when the
\* verification of its token does not fail for expiry.
C32_RecordExpiryIsTokenExpiry ==
  /\ [][ \A r \in store' \ store :
           r.expiresAt = now + RefreshTTL /\ r.expiresAt = r.token.exp ]_vars
  /\ [](\A r \in store : ~(r.expiresAt < now) <=> verifyRefreshToken(r.token, now))

\* the reply is the error handler's answer to an authentication failure
Unauthorized(reply) ==
  reply.statusCode = 401 /\ reply.body.error.code = "AUTHENTICATION_ERROR"

\* C33: every abort branch of refreshToken (the step that ends the call at
\* LOOKUP, EXPIRY_CHECK, SIGNATURE_CHECK, USER_CHECK or VERSION_CHECK) and
\* every failure of validateAccessToken ends the request at once: the slot
\* is free, nothing was generated, and the error raised is an
\* AuthenticationError, which the error handler answers with 401 and code
\* AUTHENTICATION_ERROR.
C33_AbortsAreUnauthorized ==
  [][ \A p \in Procs :
        /\ \A t \in Presented(p)' :
             /\ (RefreshStart(p, t) /\ response'.result # "none")
                  => /\ Unauthorized(errorHandler(refreshTokenThrows(response'.result, t, now)))
                     /\ proc'[p] = IdleProc /\ hrtime' = hrtime /\ store' = store
             /\ (validateAccessToken(p, t) /\ response'.result # "ok")
                  => /\ validateAccessTokenThrows(t, now).name = "AuthenticationError"
                     /\ Unauthorized(errorHandler(validateAccessTokenThrows(t, now)))
                     /\ proc'[p] = IdleProc /\ store' = store
        /\ RefreshDeleteExpired(p)
             => /\ Unauthorized(errorHandler(refreshTokenThrows(response'.result,
                                                             proc[p].token, now)))
                /\ proc'[p] = IdleProc /\ store' = store
        /\ (RefreshFindUser(p) /\ response'.result # "none")
             => /\ Unauthorized(errorHandler(refreshTokenThrows(response'.result,
                                                             proc[p].token, now)))
                /\ proc'[p] = IdleProc /\ hrtime' = hrtime /\ store' = store
    ]_vars

\* C34: when a request of makeRequest is answered 401 because the access
\* token is invalid or expired and the client holds a valid refresh token,
\* the client goes on to the refresh endpoint; when that refresh returns a
\* pair the client retries the request with the new access token, and the
\* reply to the retry ends the call.
C34_ClientRefreshesAndRetries ==
  [][ /\ (makeRequest /\ proc[Client].pc = "fetch" /\ response.result = "TokenInvalid"
             /\ ValidRefreshToken(proc[Client].refreshToken))
           => (proc'[Client].pc = "refreshing" /\ proc'[Client].caller = "makeRequest")
      /\ (refreshReturned /\ proc[Client].caller = "makeRequest" /\ response.result = "ok")
           => (proc'[Client].pc = "retry"
               /\ proc'[Client].accessToken = ReturnedTokens.accessToken)
      /\ (makeRequest /\ proc[Client].pc = "retry") => proc'[Client].pc = "idle"
    ]_vars

\* C35: a refresh token string that has left the table (rotated, revoked
\* by logout or changePassword, or cleaned up as expired) never returns:
\* every string a step inserts was never issued before, also when the
\* user's version starts again at 1 after a logout, and a refreshToken call
\* returns a pair only for a string that is stored.
C35_RemovedTokenNeverValidAgain ==
  [][ /\ \A t \in TokensOf(store') \ TokensOf(store) : t \notin issued
      /\ \A t \in issued \ TokensOf(store) : t \notin TokensOf(store')
      /\ \A p \in Procs :
           /\ RotateCommit(p) => proc[p].token \in TokensOf(store)
           /\ \A t \in {response'.token, proc'[p].token} \ TokensOf(store) :
                RefreshStart(p, t) => response'.result = "SessionNotFound"
    ]_vars

\* after a logout the user logged in again at version 1; the first
\* version-1 token, revoked by the logout, was presented and refused
C35_Witness ==
  /\ response.result = "SessionNotFound"
  /\ response.token \in issued \ (Consumed \cup TokensOf(store))
  /\ response.token.tokenVersion = 1
  /\ \E r \in store :
       /\ r.userId = response.token.userId
       /\ r.tokenVersion = 1
       /\ r.token.jti[3] > response.token.jti[3]
       /\ r.token.exp = response.token.exp

\* C36: the VERSION_CHECK of refreshToken never fails, whatever the
\* interleaving of register, login, refreshToken, logout and
\* changePassword: no call ends with TokenVersionMismatch, every stored
\* record carries the tokenVersion claim of its token, and so does the
\* record each refreshToken call in flight has found for its token.
C36_VersionCheckNeverFails ==
  /\ response.result # "TokenVersionMismatch"
  /\ \A r \in store : r.token.tokenVersion = r.tokenVersion
  /\ \A p \in Procs :
       (proc[p].op = "refresh" /\ proc[p].pc \in RefreshPcs)
         => /\ proc[p].stored.token = proc[p].token
            /\ proc[p].token.tokenVersion = proc[p].stored.tokenVersion

\* a token of the second generation passed the version check and was
\* rotated while another call of the account was in flight
C36_Witness ==
  /\ response.result = "ok"
  /\ response.token.tokenVersion = 2
  /\ response.token \in Consumed
  /\ \E q \in Procs : proc[q].op \in {"login", "refresh", "logout", "changePassword"}

\* the ways a refreshToken call ends
RefreshOutcomes == {"ok", "SessionNotFound", "RefreshTokenExpired", "TokenInvalid",
                    "UserNotFound", "TokenVersionMismatch", "DbError"}

\* C37: under fair scheduling every refreshToken call that has started
\* ends, also when refreshToken and logout calls of the same user run
\* concurrently and a statement has to wait for a row another transaction
\* holds: no call stays in flight forever, and the step that ends a call
\* gives it one outcome, a token pair or one error.
C37_EveryRefreshEnds ==
  /\ \A p \in Procs : (proc[p].op = "refresh") ~> (proc[p].pc = "idle")
  /\ [][ \A p \in Procs :
           (proc[p].op = "refresh" /\ proc'[p].pc = "idle")
             => /\ response'.token = proc[p].token
                /\ response'.result \in RefreshOutcomes
                /\ (response'.result = "ok") = (proc[p].tokens.refreshToken \in issued')
       ]_vars

\* a refreshToken call that had to wait for the row another rotation held
\* has ended: both calls returned a pair for the same token, and the
\* waiting call's deleteMany, which ran on its snapshot, left the record of
\* the first
C37_Witness ==
  /\ response.result = "ok"
  /\ Cardinality({r \in rotations : r.old = response.token}) = 2
  /\ Cardinality(UserRecords(response.token.userId)) = 2
  /\ AllFree

\* C38: a login that fails, because the email is unknown or because the
\* password is wrong, raises in both cases the same AuthenticationError
\* with the same message, answered with the same reply; it ends the call,
\* generates no token and leaves the session store as it is.
C38_FailedLoginSilent ==
  [][ \A p \in {q \in Procs : proc'[q].op = "login" \/ response'.result # "none"},
         email \in Emails, password \in Passwords :
        LoginStart(p, email, password)
          => /\ (response'.result = "InvalidCredentials")
                   = (loginThrows(email, password) # NoError)
             /\ (UserByEmail(email) = NoUser \/ UserByEmail(email).password # password)
                  => /\ response'.result = "InvalidCredentials"
                     /\ loginThrows(email, password)
                          = AuthenticationError("Invalid email or password")
                     /\ errorHandler(loginThrows(email, password))
                          = errorHandler(AuthenticationError("Invalid email or password"))
                     /\ proc'[p] = IdleProc
                     /\ store' = store /\ users' = users /\ hrtime' = hrtime
                     /\ issued' = issued /\ accessIssued' = accessIssued
    ]_vars

\* a login with the wrong password of a user who has a session was refused
C38_Witness ==
  /\ response.result = "InvalidCredentials"
  /\ \E u \in users : UserRecords(u.id) # {}
  /\ AllFree

\* C39: changePassword for a missing user or with a wrong current password
\* raises an AuthenticationError and writes neither the user row nor a
\* session record; a call that passed both tests first updates the
\* password and only then deletes the user's sessions, so when the
\* sessions are revoked the new password is already in force.
C39_PasswordBeforeRevocation ==
  [][ \A p \in Procs :
        /\ \A uid \in 1..MaxUsers, cur \in Passwords, new \in Passwords :
             ((proc'[p].op = "changePassword"
                 \/ (response'.result # "none" /\ response'.token = NoToken))
               /\ changePassword(p, uid, cur, new))
               => /\ users' = users /\ store' = store
                  /\ (response'.result = "none") = (changePasswordThrows(uid, cur) = NoError)
                  /\ (UserById(uid) = NoUser \/ UserById(uid).password # cur)
                       => /\ response'.result \in {"UserNotFound", "WrongPassword"}
                          /\ changePasswordThrows(uid, cur).name = "AuthenticationError"
                          /\ Unauthorized(errorHandler(changePasswordThrows(uid, cur)))
                          /\ proc'[p] = IdleProc
        /\ updatePassword(p) => store' = store
        /\ changePasswordLogout(p)
             => /\ users' = users
                /\ \A u \in users : u.id = proc[p].uid => u.password = proc[p].newPw
                /\ {r \in store' : r.userId = proc[p].uid} = {}
    ]_vars

\* changePassword has written the new password and the user's session is
\* still stored: the state between updatePassword and logout
C39_Witness ==
  \E p \in Procs :
    /\ proc[p].op = "changePassword"
    /\ proc[p].pc = "logout"
    /\ UserRecords(proc[p].uid) # {}
    /\ UserById(proc[p].uid).password = proc[p].newPw
    /\ proc[p].newPw = "pw2"
    /\ \E r \in UserRecords(proc[p].uid) : r.tokenVersion = 2

====
